---- MODULE Spec2Model ----
(***************************************************************************)
(* A model of accelerate's transformer_engine helpers                      *)
(* (src/accelerate/utils/transformer_engine.py) and of the script that     *)
(* compares a hand-wired FP8 training run with the Accelerator-managed one *)
(* (test_utils/scripts/external_deps/transformerengine/non_distributed.py).*)
(*                                                                         *)
(* A model is a heap of module objects.  `modules[m]` is the module with   *)
(* identity m, `params[p]` the parameter tensor with identity p.  A module *)
(* names its children in registration order (the `_modules` ordered dict)  *)
(* and holds the identities of its own `weight` and `bias` parameters      *)
(* (None when absent).  Objects are never freed: a module that was         *)
(* replaced in its parent stays in the heap under its identity, so the     *)
(* state before a call can be compared with the state after it.            *)
(*                                                                         *)
(* Tensor contents are abstracted to one integer per tensor; distinct      *)
(* tensors of the initial model hold distinct contents.  convert_model is  *)
(* modelled as called under torch.no_grad(), as both of its callers do.    *)
(* nn.LayerNorm modules are elementwise-affine with a bias, the default,   *)
(* and normalise over one dimension, so normalized_shape[0] is the size.   *)
(***************************************************************************)
EXTENDS Integers, Sequences, FiniteSets, TLC

VARIABLES
    te_installed,   \* whether transformer_engine can be imported in this environment
    modules,        \* heap of module objects: Seq of module records, indexed by identity
    params,         \* heap of parameter tensors: Seq of [data, dtype]
    forward,        \* model.forward: the recipes of the fp8_autocast wrappers around the original forward, innermost first
    lastCall,       \* the last call of an entry point: its arguments and what it did
    pc,             \* position of the verification script
    param_groups,   \* optimizer.param_groups: Seq of Seq of parameter identities
    results         \* the metric dictionaries the script's two paths returned

vars == <<te_installed, modules, params, forward, lastCall, pc, param_groups, results>>

---------------------------------------------------------------------------
(* Bounds *)

\* nodes of an initial model tree, the root included
MaxNodes == 4
\* fp8_autocast wrappers stacked on model.forward
MaxWraps == 1
\* nodes of a model whose forward is wrapped
WrapNodes == 2
\* metric values range over 0..MaxMetric
MaxMetric == 2

None == 0
root == 1

---------------------------------------------------------------------------
(* Module objects *)

NNLinear == "nn.Linear"
NNLayerNorm == "nn.LayerNorm"
NNModule == "nn.Module"
TELinear == "te.Linear"
TELayerNorm == "te.LayerNorm"
TETransformerLayer == "te.TransformerLayer"

\* A module object.  Fields that a kind does not have are None.
Module(kind, inf, outf, nshape, eps, w, b, ch) ==
    [kind |-> kind, in_features |-> inf, out_features |-> outf,
     normalized_shape |-> nshape, eps |-> eps,
     weight |-> w, bias |-> b, children |-> ch]

\* module.weight.shape of a linear layer: (out_features, in_features)
WeightShape(module) == <<module.out_features, module.in_features>>

\* the granularity of `p % 16 != 0`
Granularity == 16

\* a tensor that was allocated and not yet written
Uninitialized == 0

Float32 == "torch.float32"
BFloat16 == "torch.bfloat16"

---------------------------------------------------------------------------
(* The capability check *)

\* accelerate.utils.imports.is_fp8_available: whether the kernel library is importable
is_fp8_available == te_installed

---------------------------------------------------------------------------
(* convert_model *)

\* The state a call of convert_model threads through its loop: the two heaps,
\* the exception in flight ("none" when there is none), and two logs:
\* `early` holds <<parent, position>> of every child at which line 34 returned,
\* `replaced` holds, for every setattr, the parent, the position, the module
\* that was there and the module that is there now.
CallState(mods, ps) ==
    [modules |-> mods, params |-> ps, error |-> "none", early |-> {}, replaced |-> {}]

Raise(st, exc) == [st EXCEPT !.error = exc]

\* any(p % 16 != 0 for p in module.weight.shape)
BadShapeOnlyIn(shape) == shape[2] % Granularity /= 0
Incompatible(shape) == \E k \in DOMAIN shape : shape[k] % Granularity /= 0

\* dst.copy_(src): dst keeps its identity and dtype and takes src's contents
copyNothing(ps, dst, src) == ps
copy_(ps, dst, src) == [ps EXCEPT ![dst].data = ps[src].data]

\* a fresh parameter tensor of the given dtype, as a module constructor makes it
NewParam(ps, dtype) == Append(ps, [data |-> Uninitialized, dtype |-> dtype])

\* te.Linear(in_features, out_features, bias=has_bias, params_dtype=dtype):
\* the new module gets identity Len(st.modules) + 1
te_Linear(st, inf, outf, has_bias, dtype) ==
    LET w == Len(st.params) + 1
        b == IF has_bias THEN w + 1 ELSE None
        ps1 == NewParam(st.params, dtype)
        ps2 == IF has_bias THEN NewParam(ps1, dtype) ELSE ps1
    IN  [st EXCEPT !.params = ps2,
                   !.modules = Append(@, Module(TELinear, inf, outf, None, None, w, b, <<>>))]

\* te.LayerNorm(hidden_size, eps=eps, params_dtype=dtype): always has weight and bias
te_LayerNorm(st, hidden, eps, dtype) ==
    LET w == Len(st.params) + 1
        ps2 == NewParam(NewParam(st.params, dtype), dtype)
    IN  [st EXCEPT !.params = ps2,
                   !.modules = Append(@, Module(TELayerNorm, None, None, hidden, eps, w, w + 1, <<>>))]

\* the keyword parameters of torch's nn.Linear.__init__ and nn.LayerNorm.__init__
NNLinearKeywords == {"in_features", "out_features", "bias", "device", "dtype"}
NNLayerNormKeywords == {"normalized_shape", "eps", "elementwise_affine", "bias", "device", "dtype"}

\* nn.Linear(in_features, out_features, bias=has_bias, <dtype_kw>=dtype): a keyword
\* the constructor does not have is a TypeError, raised before anything is built
nn_Linear(st, inf, outf, has_bias, dtype_kw, dtype) ==
    IF dtype_kw \notin NNLinearKeywords THEN Raise(st, "TypeError")
    ELSE LET w == Len(st.params) + 1
             b == IF has_bias THEN w + 1 ELSE None
             ps1 == NewParam(st.params, dtype)
             ps2 == IF has_bias THEN NewParam(ps1, dtype) ELSE ps1
         IN  [st EXCEPT !.params = ps2,
                        !.modules = Append(@, Module(NNLinear, inf, outf, None, None, w, b, <<>>))]

\* nn.LayerNorm(normalized_shape, eps=eps, <dtype_kw>=dtype)
nn_LayerNorm(st, nshape, eps, dtype_kw, dtype) ==
    IF dtype_kw \notin NNLayerNormKeywords THEN Raise(st, "TypeError")
    ELSE LET w == Len(st.params) + 1
             ps2 == NewParam(NewParam(st.params, dtype), dtype)
         IN  [st EXCEPT !.params = ps2,
                        !.modules = Append(@, Module(NNLayerNorm, None, None, nshape, eps, w, w + 1, <<>>))]

\* setattr(model, name, new): nn.Module.__setattr__ stores a module under a name
\* that _modules already has, so the entry keeps its position
setattrAtEnd(st, model, i, new) ==
    LET ch == st.modules[model].children
        rest == SubSeq(ch, 1, i - 1) \o SubSeq(ch, i + 1, Len(ch))
    IN  [st EXCEPT !.modules[model].children = Append(rest, [name |-> ch[i].name, module |-> new]),
                   !.replaced = @ \cup {[parent |-> model, pos |-> i, old |-> ch[i].module, new |-> new]}]
setattr(st, model, i, new) ==
    LET ch == st.modules[model].children
    IN  [st EXCEPT !.modules[model].children =
                        [k \in DOMAIN ch |-> IF ch[k].name = ch[i].name
                                             THEN [name |-> ch[k].name, module |-> new]
                                             ELSE ch[k]],
                   !.replaced = @ \cup {[parent |-> model, pos |-> i, old |-> ch[i].module, new |-> new]}]

\* lines 35-43: child i of model, an nn.Linear, becomes a te.Linear
LinearToTE(st, model, i) ==
    LET module == st.modules[st.modules[model].children[i].module]
        has_bias == module.bias /= None
        te_module == Len(st.modules) + 1
        s1 == te_Linear(st, module.in_features, module.out_features, has_bias,
                        st.params[module.weight].dtype)
        s2 == [s1 EXCEPT !.params = copy_(@, s1.modules[te_module].weight, module.weight)]
        s3 == IF has_bias
              THEN [s2 EXCEPT !.params = copy_(@, s2.modules[te_module].bias, module.bias)]
              ELSE s2
    IN  setattr(s3, model, i, te_module)

\* lines 45-49: child i of model, an nn.LayerNorm, becomes a te.LayerNorm
LayerNormToTE(st, model, i) ==
    LET module == st.modules[st.modules[model].children[i].module]
        te_module == Len(st.modules) + 1
        s1 == te_LayerNorm(st, module.normalized_shape, module.eps,
                           st.params[module.weight].dtype)
        s2 == [s1 EXCEPT !.params = copy_(@, s1.modules[te_module].weight, module.weight)]
        s3 == [s2 EXCEPT !.params = copy_(@, s2.modules[te_module].bias, module.bias)]
    IN  setattr(s3, model, i, te_module)

\* lines 51-59: child i of model, a te.Linear, is to become an nn.Linear; the
\* constructor is called with the keyword params_dtype
LinearFromTE(st, model, i) ==
    LET module == st.modules[st.modules[model].children[i].module]
        has_bias == module.bias /= None
        new_module == Len(st.modules) + 1
        s1 == nn_Linear(st, module.in_features, module.out_features, has_bias,
                        "params_dtype", st.params[module.weight].dtype)
    IN  IF s1.error /= "none" THEN s1
        ELSE LET s2 == [s1 EXCEPT !.params = copy_(@, s1.modules[new_module].weight, module.weight)]
                 s3 == IF has_bias
                       THEN [s2 EXCEPT !.params = copy_(@, s2.modules[new_module].bias, module.bias)]
                       ELSE s2
             IN  setattr(s3, model, i, new_module)

\* lines 61-65: child i of model, a te.LayerNorm, is to become an nn.LayerNorm
LayerNormFromTE(st, model, i) ==
    LET module == st.modules[st.modules[model].children[i].module]
        new_module == Len(st.modules) + 1
        s1 == nn_LayerNorm(st, module.normalized_shape, module.eps,
                           "params_dtype", st.params[module.weight].dtype)
    IN  IF s1.error /= "none" THEN s1
        ELSE LET s2 == [s1 EXCEPT !.params = copy_(@, s1.modules[new_module].weight, module.weight)]
                 s3 == [s2 EXCEPT !.params = copy_(@, s2.modules[new_module].bias, module.bias)]
             IN  setattr(s3, model, i, new_module)

\* whether the loop of a caller stops after an inner convert_model call came
\* back in state st: only an exception unwinds the callers
UnwindsOnEarlyReturn(st) == st.error /= "none" \/ st.early /= {}
Unwinds(st) == st.error /= "none"

RECURSIVE convert_model(_, _, _, _, _)
RECURSIVE ConvertChildren(_, _, _, _, _, _)

\* the loop `for name, module in model.named_children()` from its i-th child on
ConvertChildren(st, model, i, to_transformer_engine, _convert_linear, _convert_ln) ==
    IF i > Len(st.modules[model].children) THEN st
    ELSE
    LET child == st.modules[model].children[i].module
        module == st.modules[child]
        next(s) == IF s.error /= "none" THEN s
                   ELSE ConvertChildren(s, model, i + 1, to_transformer_engine,
                                        _convert_linear, _convert_ln)
    IN  IF module.kind = NNLinear /\ to_transformer_engine /\ _convert_linear
        THEN IF Incompatible(WeightShape(module))
             THEN [st EXCEPT !.early = @ \cup {<<model, i>>}]
             ELSE next(LinearToTE(st, model, i))
        ELSE IF module.kind = NNLayerNorm /\ to_transformer_engine /\ _convert_ln
        THEN next(LayerNormToTE(st, model, i))
        ELSE IF module.kind = TELinear /\ ~to_transformer_engine /\ _convert_linear
        THEN next(LinearFromTE(st, model, i))
        ELSE IF module.kind = TELayerNorm /\ ~to_transformer_engine /\ _convert_ln
        THEN next(LayerNormFromTE(st, model, i))
        ELSE LET s1 == convert_model(st, child, to_transformer_engine,
                                     _convert_linear, _convert_ln)
             IN  IF Unwinds(s1) THEN s1
                 ELSE ConvertChildren(s1, model, i + 1, to_transformer_engine,
                                      _convert_linear, _convert_ln)

\* convert_model(model, to_transformer_engine, _convert_linear, _convert_ln)
convert_model(st, model, to_transformer_engine, _convert_linear, _convert_ln) ==
    IF ~is_fp8_available THEN Raise(st, "ImportError")
    ELSE ConvertChildren(st, model, 1, to_transformer_engine, _convert_linear, _convert_ln)

---------------------------------------------------------------------------
(* has_transformer_engine_layers *)

RECURSIVE ModulesFrom(_, _)
RECURSIVE ModulesOfChildren(_, _, _)

\* model.modules(): the module itself, then its descendants, depth first
ModulesOfChildren(mods, m, i) ==
    IF i > Len(mods[m].children) THEN <<>>
    ELSE ModulesFrom(mods, mods[m].children[i].module) \o ModulesOfChildren(mods, m, i + 1)

ModulesFrom(mods, m) == <<m>> \o ModulesOfChildren(mods, m, 1)

ModulesNoRoot(mods, m) == ModulesOfChildren(mods, m, 1)
Modules(mods, m) == ModulesFrom(mods, m)

\* isinstance(m, (te.LayerNorm, te.Linear, te.TransformerLayer))
IsTELayer(module) == module.kind \in {TELayerNorm, TELinear, TETransformerLayer}

RECURSIVE ScanForTE(_, _, _)
\* the loop of lines 81-84 from the i-th module of the sequence on
ScanForTE(mods, seq, i) ==
    IF i > Len(seq) THEN FALSE
    ELSE IF IsTELayer(mods[seq[i]]) THEN TRUE
    ELSE ScanForTE(mods, seq, i + 1)

\* has_transformer_engine_layers(model), once the capability check passed
has_transformer_engine_layers(mods, model) == ScanForTE(mods, Modules(mods, model), 1)

---------------------------------------------------------------------------
(* apply_fp8_autowrap *)

\* a key that a kwargs dict does not hold
Absent == "<absent>"

\* the members of transformer_engine.common.recipe.Format
FormatMembers == {"E4M3", "E5M2", "HYBRID"}

\* the recipe keyword handlers a caller may pass: None, or an object whose
\* to_kwargs() gives the dict shown (a key the dict lacks is Absent)
NoHandler == [is_none |-> TRUE, fp8_format |-> Absent, amax_history_len |-> Absent,
              amax_compute_algo |-> Absent]
Handlers ==
    {NoHandler,
     [is_none |-> FALSE, fp8_format |-> Absent, amax_history_len |-> Absent,
      amax_compute_algo |-> Absent],
     [is_none |-> FALSE, fp8_format |-> "HYBRID", amax_history_len |-> "32",
      amax_compute_algo |-> "max"],
     [is_none |-> FALSE, fp8_format |-> "E4M3", amax_history_len |-> Absent,
      amax_compute_algo |-> "most_recent"],
     [is_none |-> FALSE, fp8_format |-> "FP4", amax_history_len |-> Absent,
      amax_compute_algo |-> Absent]}

\* kwargs = fp8_recipe_handler.to_kwargs() if fp8_recipe_handler is not None else {}
KwargsOf(fp8_recipe_handler) ==
    IF fp8_recipe_handler.is_none
    THEN [fp8_format |-> Absent, amax_history_len |-> Absent, amax_compute_algo |-> Absent]
    ELSE [fp8_format |-> fp8_recipe_handler.fp8_format,
          amax_history_len |-> fp8_recipe_handler.amax_history_len,
          amax_compute_algo |-> fp8_recipe_handler.amax_compute_algo]

\* getattr(te_recipe.Format, name): the enum member of that name
FormatMember(name) ==
    CASE name = "E4M3" -> "Format.E4M3"
      [] name = "E5M2" -> "Format.E5M2"
      [] name = "HYBRID" -> "Format.HYBRID"

\* te_recipe.DelayedScaling(**kwargs): the recipe records the arguments it was built from
DelayedScaling(kwargs) == [cls |-> "DelayedScaling", kwargs |-> kwargs]

\* fp8_autocast(enabled=True, fp8_recipe=r)(fn): a wrapper around fn; a forward
\* binding is the sequence of the recipes of its wrappers, innermost first
WrapNothing(fwd, fp8_recipe) == fwd
Wrap(fwd, fp8_recipe) == Append(fwd, fp8_recipe)

\* the original forward runs under no context of its own
NoRecipe == [cls |-> "none",
             kwargs |-> [fp8_format |-> Absent, amax_history_len |-> Absent,
                         amax_compute_algo |-> Absent]]

RECURSIVE Invoke(_, _)
\* calling a binding with its n innermost wrappers: each wrapper enters its
\* context, calls what it wraps, and leaves the context
Invoke(fwd, n) ==
    IF n = 0 THEN <<[ev |-> "forward", recipe |-> NoRecipe]>>
    ELSE <<[ev |-> "enter", recipe |-> fwd[n]]>>
         \o Invoke(fwd, n - 1)
         \o <<[ev |-> "exit", recipe |-> fwd[n]]>>

---------------------------------------------------------------------------
(* Initial models *)

\* The layers an initial model is built from: kind, dimensions, whether the
\* layer has a bias, and the dtype of its parameters.  eps is 10^-eps.
Layer(kind, inf, outf, nshape, eps, has_bias, dtype) ==
    [kind |-> kind, in_features |-> inf, out_features |-> outf,
     normalized_shape |-> nshape, eps |-> eps, has_bias |-> has_bias, dtype |-> dtype]

\* the kinds whose modules have named children in an initial model
Containers == {NNModule}

Palette ==
    { Layer(NNModule, None, None, None, None, FALSE, Float32),
      Layer(TETransformerLayer, None, None, None, None, FALSE, Float32),
      Layer(NNLinear, 16, 32, None, None, TRUE, Float32),
      Layer(NNLinear, 32, 16, None, None, FALSE, BFloat16),
      Layer(NNLinear, 16, 24, None, None, TRUE, Float32),
      Layer(NNLinear, 24, 16, None, None, FALSE, Float32),
      Layer(NNLayerNorm, None, None, 16, 5, TRUE, Float32) }

\* how many parameters a layer owns
NumParams(layer) ==
    IF layer.kind \in {NNModule, TETransformerLayer} THEN 0
    ELSE IF layer.has_bias THEN 2 ELSE 1

RECURSIVE ParamsBefore(_, _)
\* the number of parameters owned by the nodes before node i
ParamsBefore(layers, i) ==
    IF i = 1 THEN 0 ELSE ParamsBefore(layers, i - 1) + NumParams(layers[i - 1])

RECURSIVE SortedSeq(_)
SortedSeq(S) ==
    IF S = {} THEN <<>>
    ELSE LET m == CHOOSE x \in S : \A y \in S : x <= y
         IN  <<m>> \o SortedSeq(S \ {m})

RECURSIVE Ancestors(_, _)
\* node i and the nodes above it
Ancestors(parent, i) == IF i = 1 THEN {1} ELSE {i} \cup Ancestors(parent, parent[i])

\* Nodes are numbered in depth-first order, so every ordered tree arises once:
\* the parent of node i is the node before it or one of that node's ancestors.
TreeShapes(n) ==
    {parent \in [2..n -> 1..n] :
        /\ \A i \in 2..n : parent[i] < i
        /\ \A i \in 2..n : parent[i] \in Ancestors(parent, i - 1)}

\* only a container has children
TreeLayers(n, parent) ==
    {layers \in [1..n -> Palette] : \A i \in 2..n : layers[parent[i]].kind \in Containers}

\* the module heap of the tree: node i is module i, its children named by their numbers
TreeModules(n, parent, layers) ==
    [i \in 1..n |->
        LET l == layers[i]
            w == ParamsBefore(layers, i) + 1
        IN  Module(l.kind, l.in_features, l.out_features, l.normalized_shape, l.eps,
                   IF NumParams(l) >= 1 THEN w ELSE None,
                   IF NumParams(l) = 2 THEN w + 1 ELSE None,
                   [k \in 1..Cardinality({j \in 2..n : parent[j] = i}) |->
                        LET c == SortedSeq({j \in 2..n : parent[j] = i})[k]
                        IN  [name |-> ToString(c), module |-> c]])]

\* the parameter heap of the tree: node i's weight holds 10 i + 1, its bias 10 i + 2
TreeParams(n, layers) ==
    [p \in 1..ParamsBefore(layers, n + 1) |->
        LET i == CHOOSE j \in 1..n : /\ ParamsBefore(layers, j) < p
                                     /\ p <= ParamsBefore(layers, j + 1)
        IN  [data |-> 10 * i + (p - ParamsBefore(layers, i)), dtype |-> layers[i].dtype]]

NoCall ==
    [op |-> "none", to_transformer_engine |-> FALSE, _convert_linear |-> FALSE,
     _convert_ln |-> FALSE, fp8_recipe_handler |-> NoHandler, first |-> "none",
     error |-> "none", result |-> "None", early |-> {}, replaced |-> {}, trace |-> <<>>]

\* a model of at most `size` nodes, before any entry point was called, in an
\* environment of `envs` (with or without the kernel library)
InitModel(size, envs) ==
    /\ te_installed \in envs
    /\ \E n \in 1..size :
       \E parent \in TreeShapes(n) :
       \E layers \in TreeLayers(n, parent) :
          /\ modules = TreeModules(n, parent, layers)
          /\ params = TreeParams(n, layers)
    /\ forward = <<>>
    /\ lastCall = NoCall

Init ==
    /\ InitModel(MaxNodes, BOOLEAN)
    /\ pc = "idle"
    /\ param_groups = <<>>
    /\ results = <<>>

---------------------------------------------------------------------------
(* The entry points, called on the model *)

scriptVars == <<pc, param_groups, results>>

\* convert_model(model, to_transformer_engine, _convert_linear, _convert_ln); what
\* the call wrote before an exception stays written
ConvertModel ==
    \E to_transformer_engine, _convert_linear, _convert_ln \in BOOLEAN :
        \E st \in {convert_model(CallState(modules, params), root,
                                 to_transformer_engine, _convert_linear, _convert_ln)} :
            /\ modules' = st.modules
            /\ params' = st.params
            /\ lastCall' = [NoCall EXCEPT !.op = "convert_model",
                                !.to_transformer_engine = to_transformer_engine,
                                !._convert_linear = _convert_linear,
                                !._convert_ln = _convert_ln,
                                !.first = "is_fp8_available",
                                !.error = st.error,
                                !.early = st.early,
                                !.replaced = st.replaced]
            /\ UNCHANGED <<te_installed, forward, scriptVars>>

\* has_transformer_engine_layers(model)
HasTransformerEngineLayers ==
    /\ lastCall' = IF ~is_fp8_available
                   THEN [NoCall EXCEPT !.op = "has_transformer_engine_layers",
                              !.first = "is_fp8_available", !.error = "ImportError"]
                   ELSE [NoCall EXCEPT !.op = "has_transformer_engine_layers",
                              !.first = "is_fp8_available",
                              !.result = IF has_transformer_engine_layers(modules, root)
                                          THEN "True" ELSE "False"]
    /\ UNCHANGED <<te_installed, modules, params, forward, scriptVars>>

\* apply_fp8_autowrap(model, fp8_recipe_handler): the imports of lines 92-93 come
\* first and fail when the library is not installed
ApplyFp8Autowrap ==
    \E fp8_recipe_handler \in Handlers :
        LET call == [NoCall EXCEPT !.op = "apply_fp8_autowrap",
                           !.fp8_recipe_handler = fp8_recipe_handler,
                           !.first = "import transformer_engine.common.recipe"]
            kwargs == KwargsOf(fp8_recipe_handler)
        IN  /\ Len(forward) < MaxWraps
            /\ IF ~te_installed
               THEN /\ lastCall' = [call EXCEPT !.error = "ModuleNotFoundError"]
                    /\ UNCHANGED forward
               ELSE IF kwargs.fp8_format /= Absent /\ kwargs.fp8_format \notin FormatMembers
               THEN /\ lastCall' = [call EXCEPT !.error = "AttributeError"]
                    /\ UNCHANGED forward
               ELSE LET kwargs2 == IF kwargs.fp8_format /= Absent
                                   THEN [kwargs EXCEPT !.fp8_format = FormatMember(@)]
                                   ELSE kwargs
                        fp8_recipe == DelayedScaling(kwargs2)
                    IN  /\ forward' = Wrap(forward, fp8_recipe)
                        /\ lastCall' = [call EXCEPT !.result = "model"]
            /\ UNCHANGED <<te_installed, modules, params, scriptVars>>

\* model.forward(...): the trace of contexts entered and left around the original forward
CallForward ==
    /\ lastCall' = [NoCall EXCEPT !.op = "forward", !.trace = Invoke(forward, Len(forward))]
    /\ UNCHANGED <<te_installed, modules, params, forward, scriptVars>>

Next ==
    \/ ConvertModel
    \/ HasTransformerEngineLayers

Spec == Init /\ [][Next]_vars

\* the wrapper and the calls of the wrapped forward, next to the other entry points
InitWrap ==
    /\ InitModel(WrapNodes, BOOLEAN)
    /\ pc = "idle"
    /\ param_groups = <<>>
    /\ results = <<>>

NextWrap ==
    \/ ApplyFp8Autowrap
    \/ CallForward
    \/ ConvertModel
    \/ HasTransformerEngineLayers

SpecWrap == InitWrap /\ [][NextWrap]_vars

---------------------------------------------------------------------------
(* The verification script *)

RECURSIVE NamedParameters(_, _, _)
RECURSIVE NamedParametersOfChildren(_, _, _, _)

\* model.named_parameters(): the module's own parameters, then those of its
\* children, each named by the path of child names that leads to it
NamedParametersOfChildren(mods, m, prefix, i) ==
    IF i > Len(mods[m].children) THEN <<>>
    ELSE NamedParameters(mods, mods[m].children[i].module,
                         Append(prefix, mods[m].children[i].name))
         \o NamedParametersOfChildren(mods, m, prefix, i + 1)

NamedParameters(mods, m, prefix) ==
    (IF mods[m].weight /= None
     THEN <<[name |-> Append(prefix, "weight"), param |-> mods[m].weight]>> ELSE <<>>)
    \o (IF mods[m].bias /= None
        THEN <<[name |-> Append(prefix, "bias"), param |-> mods[m].bias]>> ELSE <<>>)
    \o NamedParametersOfChildren(mods, m, prefix, 1)

\* get_named_parameters(model): {n: p for n, p in model.named_parameters()}, in
\* insertion order
get_named_parameters(mods) == NamedParameters(mods, root, <<>>)

NamesOf(named) == {named[i].name : i \in DOMAIN named}
ParamsOf(named) == {named[i].param : i \in DOMAIN named}

\* named[n], for a name the dict holds
Lookup(named, n) == named[CHOOSE i \in DOMAIN named : named[i].name = n].param

\* mapping = {p: new_named_params[n] for n, p in old_named_params.items()}
Mapping(old, new) ==
    [p \in ParamsOf(old) |->
        Lookup(new, old[CHOOSE i \in DOMAIN old : old[i].param = p].name)]

\* param_group["params"] = [mapping[p] for p in param_group["params"]], for every group
RepointNothing(groups, mapping) == groups
Repoint(groups, mapping) ==
    [g \in DOMAIN groups |-> [k \in DOMAIN groups[g] |-> mapping[groups[g][k]]]]

\* lines 63-75 of train_baseline: convert the model by hand and re-point the optimizer
BaselineSetup ==
    /\ pc = "start"
    /\ \E old_named_params \in {get_named_parameters(modules)} :
       \E st \in {convert_model(CallState(modules, params), root, TRUE, TRUE, TRUE)} :
       \E new_named_params \in {get_named_parameters(st.modules)} :
           /\ modules' = st.modules
           /\ params' = st.params
           /\ lastCall' = [NoCall EXCEPT !.op = "convert_model",
                               !.to_transformer_engine = TRUE,
                               !._convert_linear = TRUE, !._convert_ln = TRUE,
                               !.first = "is_fp8_available", !.error = st.error,
                               !.early = st.early, !.replaced = st.replaced]
           /\ IF st.error /= "none"
              THEN pc' = "failed:convert_model" /\ UNCHANGED param_groups
              ELSE IF \/ NamesOf(old_named_params) \ NamesOf(new_named_params) /= {}
                      \/ \E g \in DOMAIN param_groups : \E k \in DOMAIN param_groups[g] :
                            param_groups[g][k] \notin ParamsOf(old_named_params)
              THEN pc' = "failed:KeyError" /\ UNCHANGED param_groups
              ELSE /\ pc' = "baseline_converted"
                   /\ param_groups' = Repoint(param_groups,
                                              Mapping(old_named_params, new_named_params))
    /\ UNCHANGED <<te_installed, forward, results>>

Metrics == [accuracy : 0..MaxMetric, f1 : 0..MaxMetric]

\* the two assertions that end train_baseline and train_integration
ImprovedOrEqual(trained_model_results, base_model_results) ==
    /\ trained_model_results.accuracy >= base_model_results.accuracy
    /\ trained_model_results.f1 >= base_model_results.f1
Improved(trained_model_results, base_model_results) ==
    /\ trained_model_results.accuracy > base_model_results.accuracy
    /\ trained_model_results.f1 > base_model_results.f1

\* the four assertions of the main block
Parity(baseline, accelerator) ==
    /\ baseline.not_trained.accuracy = accelerator.not_trained.accuracy
    /\ baseline.not_trained.f1 = accelerator.not_trained.f1
    /\ baseline.trained.accuracy = accelerator.trained.accuracy
    /\ baseline.trained.f1 = accelerator.trained.f1

\* lines 77-100 of train_baseline: evaluate, train, evaluate, assert, return.
\* The metrics are whatever the runs give; tensor contents are not followed
\* through training.
BaselineRun ==
    /\ pc = "baseline_converted"
    /\ \E base_model_results, trained_model_results \in Metrics :
          IF Improved(trained_model_results, base_model_results)
          THEN /\ results' = Append(results, [not_trained |-> base_model_results,
                                              trained |-> trained_model_results])
               /\ pc' = "baseline_done"
          ELSE /\ pc' = "failed:train_baseline"
               /\ UNCHANGED results
    /\ UNCHANGED <<te_installed, modules, params, forward, lastCall, param_groups>>

\* train_integration: the same run through Accelerator.prepare, on a model of its own
TrainIntegration ==
    /\ pc = "baseline_done"
    /\ \E base_model_results, trained_model_results \in Metrics :
          IF Improved(trained_model_results, base_model_results)
          THEN /\ results' = Append(results, [not_trained |-> base_model_results,
                                              trained |-> trained_model_results])
               /\ pc' = "integration_done"
          ELSE /\ pc' = "failed:train_integration"
               /\ UNCHANGED results
    /\ UNCHANGED <<te_installed, modules, params, forward, lastCall, param_groups>>

\* lines 135-138: the two paths must agree on every metric
MainAsserts ==
    /\ pc = "integration_done"
    /\ pc' = IF Parity(results[1], results[2]) THEN "done" ELSE "failed:main"
    /\ UNCHANGED <<te_installed, modules, params, forward, lastCall, param_groups, results>>

\* optimizer.param_groups as get_training_utilities may build them: one group
\* of all the model's parameters, or the weights in one group and the biases
\* (no weight decay) in another
OneGroup(named) == << [i \in DOMAIN named |-> named[i].param] >>
ByDecay(named) ==
    << SelectSeq([i \in DOMAIN named |-> named[i].param],
                 LAMBDA q : \E i \in DOMAIN named :
                     named[i].param = q /\ named[i].name[Len(named[i].name)] = "weight"),
       SelectSeq([i \in DOMAIN named |-> named[i].param],
                 LAMBDA q : \E i \in DOMAIN named :
                     named[i].param = q /\ named[i].name[Len(named[i].name)] = "bias") >>

\* the model the script trains: an encoder of a dense layer and a layer norm,
\* then a classifier whose output size is the number of labels
ScriptParent == [i \in 2..5 |-> IF i \in {3, 4} THEN 2 ELSE 1]
ScriptLayers ==
    << Layer(NNModule, None, None, None, None, FALSE, Float32),
       Layer(NNModule, None, None, None, None, FALSE, Float32),
       Layer(NNLinear, 16, 32, None, None, TRUE, Float32),
       Layer(NNLayerNorm, None, None, 16, 5, TRUE, Float32),
       Layer(NNLinear, 16, 2, None, None, TRUE, Float32) >>

InitScript ==
    /\ te_installed = TRUE
    /\ modules = TreeModules(5, ScriptParent, ScriptLayers)
    /\ params = TreeParams(5, ScriptLayers)
    /\ forward = <<>>
    /\ lastCall = NoCall
    /\ pc = "start"
    /\ param_groups = OneGroup(get_named_parameters(modules))
    /\ results = <<>>

NextScript ==
    \/ BaselineSetup
    \/ BaselineRun
    \/ TrainIntegration
    \/ MainAsserts

SpecScript == InitScript /\ [][NextScript]_vars

\* the hand conversion of train_baseline on any model, with the optimizer's
\* parameters in two groups
InitMapping ==
    /\ InitModel(MaxNodes, {TRUE})
    /\ pc = "start"
    /\ param_groups \in {OneGroup(get_named_parameters(modules)),
                          ByDecay(get_named_parameters(modules))}
    /\ results = <<>>

NextMapping == BaselineSetup

SpecMapping == InitMapping /\ [][NextMapping]_vars

---------------------------------------------------------------------------
(* Vocabulary of the properties *)

ChildIds(mods, m) == {mods[m].children[k].module : k \in DOMAIN mods[m].children}

RECURSIVE Reach(_, _, _)
Reach(mods, frontier, seen) ==
    IF frontier = {} THEN seen
    ELSE Reach(mods, (UNION {ChildIds(mods, m) : m \in frontier}) \ (seen \cup frontier),
               seen \cup frontier)

\* the nodes of the tree under m, m included
Subtree(mods, m) == Reach(mods, {m}, {})

\* the <<parent, position>> pairs of the model tree
Positions(mods) ==
    {<<p, k>> \in Subtree(mods, root) \X (1..Len(mods)) : k \in DOMAIN mods[p].children}

ChildAt(mods, pos) == mods[pos[1]].children[pos[2]].module

\* the place of module m in the depth-first order of the model tree
DepthFirstIndex(mods, m) ==
    LET order == ModulesFrom(mods, root)
    IN  CHOOSE i \in DOMAIN order : order[i] = m

Aligned(module) ==
    module.in_features % Granularity = 0 /\ module.out_features % Granularity = 0

\* the step is a call of convert_model towards transformer_engine
ConvertStepToTE == lastCall'.op = "convert_model" /\ lastCall'.to_transformer_engine

DefaultFlags(call) ==
    call.to_transformer_engine /\ call._convert_linear /\ call._convert_ln

\* the parameter q of the state after the step is a fresh copy of parameter p
FreshCopy(q, p) ==
    /\ q \notin DOMAIN params
    /\ params'[q].data = params[p].data
    /\ params'[q].dtype = params[p].dtype

---------------------------------------------------------------------------
(* C1 *)

\* C1: after convert_model(model) with default flags, every child that was
\* replaced was an nn.Linear with both dimensions multiples of 16 or an
\* nn.LayerNorm, and the module now in its place is a new transformer_engine
\* module with the same dimensions (or normalized size and eps), a bias exactly
\* when the old one had one, and weight and bias that are new tensors holding
\* the old contents in the old dtype.
C1_CopyFidelity ==
    [][ (lastCall'.op = "convert_model" /\ DefaultFlags(lastCall')) =>
        \A pos \in Positions(modules) :
            LET old == ChildAt(modules, pos)
                new == ChildAt(modules', pos)
                o == modules[old]
                n == modules'[new]
            IN  new /= old =>
                /\ new \notin DOMAIN modules
                /\ \/ /\ o.kind = NNLinear /\ Aligned(o)
                      /\ n.kind = TELinear
                      /\ n.in_features = o.in_features
                      /\ n.out_features = o.out_features
                   \/ /\ o.kind = NNLayerNorm
                      /\ n.kind = TELayerNorm
                      /\ n.normalized_shape = o.normalized_shape
                      /\ n.eps = o.eps
                /\ FreshCopy(n.weight, o.weight)
                /\ (n.bias = None) = (o.bias = None)
                /\ o.bias /= None => FreshCopy(n.bias, o.bias)
                /\ n.bias /= n.weight
      ]_vars

\* a default call replaced a linear layer with a bias, one without, and a layer norm
C1_Witness ==
    /\ lastCall.op = "convert_model" /\ DefaultFlags(lastCall)
    /\ \E a, b, c \in lastCall.replaced :
          /\ modules[a.new].kind = TELinear /\ modules[a.new].bias /= None
          /\ modules[b.new].kind = TELinear /\ modules[b.new].bias = None
          /\ modules[c.new].kind = TELayerNorm

---------------------------------------------------------------------------
(* C2 *)

\* C2: a default convert_model(model) followed by
\* convert_model(model, to_transformer_engine=False) completes, and every
\* position the first call converted holds again a module of the original type
\* with the original parameter values.
C2_RoundTrip ==
    [][ ( /\ lastCall.op = "convert_model" /\ DefaultFlags(lastCall)
          /\ lastCall.error = "none"
          /\ lastCall'.op = "convert_model" /\ ~lastCall'.to_transformer_engine
          /\ lastCall'._convert_linear /\ lastCall'._convert_ln ) =>
        /\ lastCall'.error = "none"
        /\ \A r \in lastCall.replaced :
              LET orig == modules[r.old]
                  now == modules'[ChildAt(modules', <<r.parent, r.pos>>)]
              IN  /\ now.kind = orig.kind
                  /\ params'[now.weight].data = params[orig.weight].data
                  /\ (now.bias = None) = (orig.bias = None)
                  /\ now.bias /= None => params'[now.bias].data = params[orig.bias].data
      ]_vars

---------------------------------------------------------------------------
(* C3 *)

\* the nodes the loop over model's children had not handled when it reached position i
NotYetHandled(mods, model, i) ==
    UNION {Subtree(mods, mods[model].children[k].module) :
              k \in {j \in DOMAIN mods[model].children : j >= i}}

\* C3, as stated: where the loop over a parent's children returned at a linear
\* layer whose dimensions are not multiples of 16, no child of that parent is
\* converted.
C3_NoSiblingConverted ==
    [][ ConvertStepToTE =>
        \A e \in lastCall'.early :
            \A k \in DOMAIN modules[e[1]].children :
                ChildAt(modules', <<e[1], k>>) = ChildAt(modules, <<e[1], k>>)
      ]_vars

\* C3, amended: a linear layer whose output size is not a multiple of 16 is
\* never converted; where the loop over a parent's children returned at such a
\* layer, that layer, its later siblings and everything below them are the
\* modules they were, unchanged; and the call raises nothing.
C3_LaterSiblingsUntouched ==
    [][ ConvertStepToTE =>
        /\ \A pos \in Positions(modules) :
              LET o == modules[ChildAt(modules, pos)]
              IN  (o.kind = NNLinear /\ o.out_features % Granularity /= 0) =>
                      ChildAt(modules', pos) = ChildAt(modules, pos)
        /\ \A e \in lastCall'.early :
              /\ modules[ChildAt(modules, e)].kind = NNLinear
              /\ ~Aligned(modules[ChildAt(modules, e)])
              /\ \A k \in DOMAIN modules[e[1]].children :
                    k >= e[2] => ChildAt(modules', <<e[1], k>>) = ChildAt(modules, <<e[1], k>>)
              /\ \A m \in NotYetHandled(modules, e[1], e[2]) : modules'[m] = modules[m]
        /\ te_installed => lastCall'.error = "none"
      ]_vars

\* a call returned at a linear layer with a misaligned output size, after it
\* converted an earlier sibling and before a later sibling it would have converted
C3_Witness ==
    /\ lastCall.op = "convert_model" /\ DefaultFlags(lastCall)
    /\ lastCall.error = "none"
    /\ \E e \in lastCall.early :
          /\ modules[ChildAt(modules, e)].out_features % Granularity /= 0
          /\ \E r \in lastCall.replaced : r.parent = e[1] /\ r.pos < e[2]
          /\ \E k \in DOMAIN modules[e[1]].children :
                /\ k > e[2]
                /\ \/ modules[ChildAt(modules, <<e[1], k>>)].kind = NNLayerNorm
                   \/ /\ modules[ChildAt(modules, <<e[1], k>>)].kind = NNLinear
                      /\ Aligned(modules[ChildAt(modules, <<e[1], k>>)])

---------------------------------------------------------------------------
(* C4 *)

\* C4, as stated: once a call met a linear layer with incompatible dimensions,
\* nothing later in the depth-first order of the whole tree is converted.
C4_WholeTraversalAborted ==
    [][ ConvertStepToTE =>
        \A e \in lastCall'.early :
            \A pos \in Positions(modules) :
                DepthFirstIndex(modules, ChildAt(modules, pos))
                    > DepthFirstIndex(modules, ChildAt(modules, e))
                => ChildAt(modules', pos) = ChildAt(modules, pos)
      ]_vars

\* the parent and position of a node of the tree other than the root
PlaceOf(mods, m) == CHOOSE pos \in Positions(mods) : ChildAt(mods, pos) = m

\* a linear layer at which a call with _convert_linear returns
StopsLoop(module) == module.kind = NNLinear /\ ~Aligned(module)

RECURSIVE CutOff(_, _)
\* an earlier sibling of m, or of a node above m, is a linear layer with
\* incompatible dimensions
CutOff(mods, m) ==
    IF m = root THEN FALSE
    ELSE LET pos == PlaceOf(mods, m)
         IN  \/ \E j \in 1..(pos[2] - 1) : StopsLoop(mods[ChildAt(mods, <<pos[1], j>>)])
             \/ CutOff(mods, pos[1])

\* C4, amended: an incompatible linear layer ends only the loop over the
\* children of its own parent.  A call that converts linear layers converts
\* exactly the aligned linear layers and (when enabled) the layer norms that
\* have no incompatible linear layer among their own earlier siblings or among
\* the earlier siblings of a node above them; later siblings of a node above
\* the incompatible layer are still visited.
C4_OnlyItsLoopEnds ==
    [][ (ConvertStepToTE /\ lastCall'._convert_linear /\ te_installed) =>
        \A pos \in Positions(modules) :
            LET o == modules[ChildAt(modules, pos)]
            IN  (ChildAt(modules', pos) /= ChildAt(modules, pos))
                <=> /\ \/ o.kind = NNLinear /\ Aligned(o)
                       \/ o.kind = NNLayerNorm /\ lastCall'._convert_ln
                    /\ ~StopsLoop(o)
                    /\ ~CutOff(modules, ChildAt(modules, pos))
      ]_vars

\* a call returned at an incompatible linear layer and went on to convert a
\* node that comes later in the depth-first order
C4_Witness ==
    /\ lastCall.op = "convert_model" /\ DefaultFlags(lastCall)
    /\ \E e \in lastCall.early : \E r \in lastCall.replaced :
          DepthFirstIndex(modules, r.new) > DepthFirstIndex(modules, ChildAt(modules, e))

---------------------------------------------------------------------------
(* C5 *)

TEKinds == {TELayerNorm, TELinear, TETransformerLayer}

\* C5: has_transformer_engine_layers(model) changes nothing, and where the
\* kernel library is installed it returns True exactly when some node of the
\* model tree, the root included, is a te.LayerNorm, a te.Linear or a
\* te.TransformerLayer.
C5_HasLayers ==
    [][ lastCall'.op = "has_transformer_engine_layers" =>
        /\ modules' = modules /\ params' = params /\ forward' = forward
        /\ te_installed =>
              /\ lastCall'.error = "none"
              /\ lastCall'.result =
                    IF \E m \in Subtree(modules, root) : modules[m].kind \in TEKinds
                    THEN "True" ELSE "False"
      ]_vars

\* the query found a converted layer below a child of a root that is not one itself
C5_Witness ==
    /\ lastCall.op = "has_transformer_engine_layers" /\ lastCall.result = "True"
    /\ modules[root].kind \notin TEKinds
    /\ \A c \in ChildIds(modules, root) : modules[c].kind \notin TEKinds
    /\ \E m \in Subtree(modules, root) : modules[m].kind = TELinear

---------------------------------------------------------------------------
(* C6 *)

\* C6: where is_fp8_available() is false, each of convert_model,
\* has_transformer_engine_layers and apply_fp8_autowrap evaluates that check
\* first and fails with its ImportError, the model unchanged.
C6_GuardedEverywhere ==
    [][ ( /\ lastCall'.op \in {"convert_model", "has_transformer_engine_layers",
                               "apply_fp8_autowrap"}
          /\ ~is_fp8_available ) =>
        /\ lastCall'.first = "is_fp8_available"
        /\ lastCall'.error = "ImportError"
        /\ modules' = modules /\ params' = params /\ forward' = forward
      ]_vars

---------------------------------------------------------------------------
(* C7 *)

\* the child is of a type the call replaces
Matched(module, call) ==
    \/ module.kind = NNLinear /\ call.to_transformer_engine /\ call._convert_linear
    \/ module.kind = NNLayerNorm /\ call.to_transformer_engine /\ call._convert_ln
    \/ module.kind = TELinear /\ ~call.to_transformer_engine /\ call._convert_linear
    \/ module.kind = TELayerNorm /\ ~call.to_transformer_engine /\ call._convert_ln

\* C7: whatever the tree, the direction and the flags, a call of convert_model
\* keeps every module's child names in their positions, keeps every child that
\* is not of a matched type the same object, and changes no field of an
\* existing module other than which object a matched child name refers to, nor
\* any existing parameter tensor.
C7_Frame ==
    [][ lastCall'.op = "convert_model" =>
        /\ DOMAIN modules \subseteq DOMAIN modules'
        /\ \A m \in DOMAIN modules :
              /\ Len(modules'[m].children) = Len(modules[m].children)
              /\ \A k \in DOMAIN modules[m].children :
                    /\ modules'[m].children[k].name = modules[m].children[k].name
                    /\ ~Matched(modules[ChildAt(modules, <<m, k>>)], lastCall') =>
                          ChildAt(modules', <<m, k>>) = ChildAt(modules, <<m, k>>)
              /\ [modules'[m] EXCEPT !.children = modules[m].children] = modules[m]
        /\ \A q \in DOMAIN params : params'[q] = params[q]
        /\ forward' = forward
      ]_vars

\* a call with _convert_linear off replaced a layer norm that has an aligned
\* linear layer as a later sibling, in a tree of depth two
C7_Witness ==
    /\ lastCall.op = "convert_model" /\ ~lastCall._convert_linear
    /\ \E r \in lastCall.replaced :
          /\ r.parent /= root
          /\ \E k \in DOMAIN modules[r.parent].children :
                /\ k > r.pos
                /\ modules[ChildAt(modules, <<r.parent, k>>)].kind = NNLinear
                /\ Aligned(modules[ChildAt(modules, <<r.parent, k>>)])

---------------------------------------------------------------------------
(* C8 *)

\* the recipe a handler stands for: its keyword arguments, the format name
\* replaced by the member of Format it names
RecipeFor(h) ==
    [cls |-> "DelayedScaling",
     kwargs |-> [fp8_format |-> IF h.is_none \/ h.fp8_format = Absent THEN Absent
                                ELSE IF h.fp8_format = "HYBRID" THEN "Format.HYBRID"
                                ELSE IF h.fp8_format = "E4M3" THEN "Format.E4M3"
                                ELSE "Format.E5M2",
                 amax_history_len |-> IF h.is_none THEN Absent ELSE h.amax_history_len,
                 amax_compute_algo |-> IF h.is_none THEN Absent ELSE h.amax_compute_algo]]

\* C8: apply_fp8_autowrap(model, handler) changes no module and no parameter;
\* when it returns, it returns the model it was given and model.forward is the
\* previous forward wrapped once more, in the context of the recipe built from
\* the handler (from no arguments when the handler is None).  Every call of
\* model.forward enters the contexts from the outermost in, runs the original
\* forward exactly once inside them, and leaves them in the opposite order.
C8_Autowrap ==
    [][ /\ lastCall'.op = "apply_fp8_autowrap" =>
            /\ modules' = modules /\ params' = params
            /\ IF lastCall'.error = "none"
               THEN /\ lastCall'.result = "model"
                    /\ Len(forward') = Len(forward) + 1
                    /\ SubSeq(forward', 1, Len(forward)) = forward
                    /\ forward'[Len(forward')] = RecipeFor(lastCall'.fp8_recipe_handler)
               ELSE forward' = forward
        /\ lastCall'.op = "forward" =>
            LET t == lastCall'.trace
                n == Len(forward)
            IN  /\ modules' = modules /\ params' = params /\ forward' = forward
                /\ Len(t) = 2 * n + 1
                /\ t[n + 1].ev = "forward"
                /\ \A i \in 1..n :
                      /\ t[i] = [ev |-> "enter", recipe |-> forward[n + 1 - i]]
                      /\ t[2 * n + 2 - i] = [ev |-> "exit", recipe |-> forward[n + 1 - i]]
      ]_vars

\* the forward of a model wrapped with no handler was called
C8_Witness ==
    /\ lastCall.op = "forward"
    /\ Len(forward) >= 1
    /\ forward[Len(forward)] = RecipeFor(NoHandler)
    /\ Len(lastCall.trace) = 2 * Len(forward) + 1

---------------------------------------------------------------------------
(* C9 *)

Better(trained, base) == trained.accuracy > base.accuracy /\ trained.f1 > base.f1

\* C9: the script reaches its end only with both paths strictly improved on
\* accuracy and F1 and with the four metrics equal between the paths; the
\* managed path has results only after the manual path returned its own, and
\* the main block's assertions are reached only with both paths' own
\* assertions passed.
C9_ScriptPasses ==
    /\ pc \in {"start", "baseline_converted", "failed:convert_model", "failed:KeyError",
               "failed:train_baseline"} => results = <<>>
    /\ pc \in {"baseline_done", "failed:train_integration"} =>
          /\ Len(results) = 1
          /\ Better(results[1].trained, results[1].not_trained)
    /\ pc \in {"integration_done", "failed:main", "done"} =>
          /\ Len(results) = 2
          /\ Better(results[1].trained, results[1].not_trained)
          /\ Better(results[2].trained, results[2].not_trained)
    /\ pc = "done" =>
          /\ results[1].not_trained.accuracy = results[2].not_trained.accuracy
          /\ results[1].not_trained.f1 = results[2].not_trained.f1
          /\ results[1].trained.accuracy = results[2].trained.accuracy
          /\ results[1].trained.f1 = results[2].trained.f1

\* the script ran to its end
C9_Witness == pc = "done" /\ Len(results) = 2

---------------------------------------------------------------------------
(* C10 *)

\* C10: in train_baseline the conversion keeps every parameter name, so the
\* mapping is built; it sends distinct old parameters to distinct parameters of
\* the converted model and reaches every one of them; and after re-pointing
\* each optimizer group has its old length and holds, position by position, the
\* converted model's parameter of the same name as the one it held.
C10_Mapping ==
    [][ (pc = "start" /\ pc' /= "start") =>
        \A old \in {get_named_parameters(modules)} :
        \A new \in {get_named_parameters(modules')} :
            /\ pc' = "baseline_converted"
            /\ NamesOf(old) = NamesOf(new)
            /\ Len(old) = Len(new)
            /\ \A i, j \in DOMAIN old :
                  i /= j => Lookup(new, old[i].name) /= Lookup(new, old[j].name)
            /\ DOMAIN param_groups' = DOMAIN param_groups
            /\ \A g \in DOMAIN param_groups :
                  /\ Len(param_groups'[g]) = Len(param_groups[g])
                  /\ \A k \in DOMAIN param_groups[g] :
                        /\ param_groups'[g][k] \in ParamsOf(new)
                        /\ \E i \in DOMAIN old :
                              /\ old[i].param = param_groups[g][k]
                              /\ param_groups'[g][k] = Lookup(new, old[i].name)
      ]_vars

\* the conversion replaced a layer, stopped early at another, and the
\* optimizer had two groups that were not empty
C10_Witness ==
    /\ pc = "baseline_converted"
    /\ lastCall.replaced /= {} /\ lastCall.early /= {}
    /\ Len(param_groups) = 2
    /\ param_groups[1] /= <<>> /\ param_groups[2] /= <<>>
    /\ \E g \in DOMAIN param_groups : \E k \in DOMAIN param_groups[g] :
          \E r \in lastCall.replaced : param_groups[g][k] = modules[r.new].weight

====
